---- MODULE Spec2Model ----
(***************************************************************************)
(* Model of the two scripts of the repository:                             *)
(*   benchmark.py       count_files_and_bytes, run_command,                *)
(*                      benchmark_programs, main                           *)
(*   create_dataset.py  make_copy_dataset, make_random_dataset, main and   *)
(*                      the __main__ error boundary                        *)
(* One behaviour of the model is one run of one of the scripts; prog says  *)
(* which one ("benchmark", or create_dataset in mode "copy" / "random").   *)
(* The file system, the external binaries and the command line are the     *)
(* inputs, drawn from bounded sets in Init and in the actions.             *)
(***************************************************************************)
EXTENDS Integers, Sequences, FiniteSets, TLC

\* ---- bounds of the model ------------------------------------------------
MaxThreadsArg == 8      \* --max-threads ranges over MinIntArg..MaxThreadsArg
MaxTreeFiles == 2       \* files found by os.walk under --data
MaxSize == 1            \* byte size of one file under --data
MaxCopies == 2          \* --copies ranges over MinIntArg..MaxCopies
MaxNumFiles == 2        \* --num-files ranges over MinIntArg..MaxNumFiles
MaxFileSize == 170      \* --file-size ranges over MinIntArg..MaxFileSize

\* argparse type=int accepts zero and negative integers as well
MinIntArg == 0 - 1

\* ---- program constants --------------------------------------------------
LineWidth == 80         \* min(80, remaining)
NewlineLen == 1         \* f.write("\n") in text mode, os.linesep = "\n"

VARIABLES
    prog,           \* which script / mode runs
    pc,             \* position of the run
    exit_code,      \* -1 while running, then the process exit status
    \* benchmark.py
    data_tree,      \* the files os.walk yields: <<[size, readable], ...>>
    max_threads,    \* args.max_threads
    total_files,    \* count_files_and_bytes result
    total_bytes,
    t,              \* loop variable of the thread-count loop
    thread_counts,
    n_idx,          \* position of `for n in thread_counts`
    results,        \* the results list
    invoked,        \* every process launch attempted so far, with outcome
    printed,        \* the results table has been printed
    \* create_dataset.py
    source,         \* --source when it lies outside --dest
    source_at,      \* -1, or k when --source is <dest>/copy_k
    dest,           \* --dest: [kind, entries] (copy mode)
    copies,         \* args.copies
    i,              \* loop variable of `for i in range(...)`
    num_files,      \* args.num_files
    file_size,      \* args.file_size
    remaining,      \* remaining counter of the line loop
    written         \* byte size of file_000000.txt, file_000001.txt, ...

bvars == <<data_tree, max_threads, total_files, total_bytes, t, thread_counts,
           n_idx, results, invoked, printed>>
cvars == <<source, source_at, dest, copies>>
rvars == <<num_files, file_size, remaining, written>>
vars == <<prog, pc, exit_code, bvars, cvars, i, rvars>>

\* ---- helpers ------------------------------------------------------------
Min(a, b) == IF a < b THEN a ELSE b

\* ======================= benchmark.py ====================================

\* One file met by os.walk: its size and whether os.path.getsize succeeds.
FileStat == [size : 1..MaxSize, readable : BOOLEAN]

RECURSIVE SeqsUpTo(_, _)
SeqsUpTo(S, k) ==
    IF k = 0 THEN {<<>>}
    ELSE LET shorter == SeqsUpTo(S, k - 1)
         IN  shorter \cup {Append(s, x) : s \in {q \in shorter : Len(q) = k - 1}, x \in S}

DataTrees == SeqsUpTo(FileStat, MaxTreeFiles)

\* Body of the inner loop: `total_files += 1` runs before os.path.getsize,
\* so it has taken effect when getsize raises OSError; `total_bytes +=` has not.
count_one(acc, f) ==
    IF f.readable
    THEN <<acc[1] + 1, acc[2] + f.size>>
    ELSE <<acc[1] + 1, acc[2]>>

RECURSIVE count_loop(_, _)
count_loop(acc, files) ==
    IF files = <<>> THEN acc
    ELSE count_loop(count_one(acc, Head(files)), Tail(files))

count_files_and_bytes(root) == count_loop(<<0, 0>>, root)

\* end - start of run_command: a positive float the sweep never branches on;
\* it is carried as an opaque value
Elapsed == "end - start"

\* What a launch of an external program can do: exit 0 after some time,
\* exit non-zero (CalledProcessError), or fail to launch (FileNotFoundError).
Outcome ==
    {[status |-> "ok", duration |-> Elapsed],
     [status |-> "nonzero", duration |-> "none"],
     [status |-> "notfound", duration |-> "none"]}

run_command(cmd) == Outcome

Programs == <<"fauxgrep", "fauxgrep-mt", "fhistogram", "fhistogram-mt">>

Launch(name, n, o) == [prog |-> name, threads |-> n, status |-> o.status]

\* slip: the thread count of the single-threaded line copied to every tuple
Measurement_one_thread(name, n, o) ==
    [prog |-> name, threads |-> 1, time_s |-> o.duration,
     files_per_s |-> <<total_files, o.duration>>,
     bytes_per_s |-> <<total_bytes, o.duration>>]

\* the tuple appended to results; the two throughputs are kept as fractions
Measurement(name, n, o) ==
    [prog |-> name, threads |-> n, time_s |-> o.duration,
     files_per_s |-> <<total_files, o.duration>>,
     bytes_per_s |-> <<total_bytes, o.duration>>]

\* benchmark_programs, lines 79-87: the scan, the header, thread_counts = [1]
BenchStart ==
    /\ prog = "benchmark" /\ pc = "start"
    /\ LET tot == count_files_and_bytes(data_tree)
       IN  /\ total_files' = tot[1]
           /\ total_bytes' = tot[2]
    /\ thread_counts' = <<1>>
    /\ t' = 1
    /\ pc' = "build"
    /\ UNCHANGED <<prog, exit_code, data_tree, max_threads, n_idx, results,
                   invoked, printed, cvars, i, rvars>>

\* slip: the loop stops before a doubling that would pass the maximum
loop_cond_capped(tt, max) == tt * 2 <= max

\* the loop condition of line 88
loop_cond(tt, max) == tt < max

\* one iteration of `while t < max_threads`
BuildStep ==
    /\ prog = "benchmark" /\ pc = "build"
    /\ loop_cond(t, max_threads)
    /\ t' = t * 2
    /\ thread_counts' = Append(thread_counts, t')
    /\ UNCHANGED <<prog, pc, exit_code, data_tree, max_threads, total_files,
                   total_bytes, n_idx, results, invoked, printed, cvars, i, rvars>>

\* the loop ends; results = []
BuildDone ==
    /\ prog = "benchmark" /\ pc = "build"
    /\ ~loop_cond(t, max_threads)
    /\ results' = <<>>
    /\ n_idx' = 1
    /\ pc' = "fauxgrep"
    /\ UNCHANGED <<prog, exit_code, data_tree, max_threads, total_files,
                   total_bytes, t, thread_counts, invoked, printed, cvars, i, rvars>>

\* An uncaught CalledProcessError leaves benchmark_programs and main: the
\* interpreter prints a traceback and exits with status 1.
Abort ==
    /\ pc' = "aborted"
    /\ exit_code' = 1
    /\ UNCHANGED <<results, n_idx, printed>>

\* slip: `except Exception` in place of `except FileNotFoundError`
SingleStage_catch_all(name, next) ==
    /\ prog = "benchmark" /\ pc = name
    /\ \E o \in run_command(name) :
         /\ invoked' = Append(invoked, Launch(name, 1, o))
         /\ IF o.status = "ok"
            THEN /\ results' = Append(results, Measurement(name, 1, o))
                 /\ pc' = next
                 /\ UNCHANGED <<exit_code, n_idx, printed>>
            ELSE /\ pc' = next
                 /\ UNCHANGED <<results, exit_code, n_idx, printed>>
    /\ UNCHANGED <<prog, data_tree, max_threads, total_files, total_bytes, t,
                   thread_counts, cvars, i, rvars>>

\* try: run_command(...); results.append(...)  except FileNotFoundError: print
SingleStage(name, next) ==
    /\ prog = "benchmark" /\ pc = name
    /\ \E o \in run_command(name) :
         /\ invoked' = Append(invoked, Launch(name, 1, o))
         /\ CASE o.status = "ok" ->
                   /\ results' = Append(results, Measurement(name, 1, o))
                   /\ pc' = next
                   /\ UNCHANGED <<exit_code, n_idx, printed>>
              [] o.status = "notfound" ->
                   /\ pc' = next
                   /\ UNCHANGED <<results, exit_code, n_idx, printed>>
              [] o.status = "nonzero" -> Abort
    /\ UNCHANGED <<prog, data_tree, max_threads, total_files, total_bytes, t,
                   thread_counts, cvars, i, rvars>>

\* slip: `continue` in place of `break` after FileNotFoundError
MtStage_no_break(name, next) ==
    /\ prog = "benchmark" /\ pc = name
    /\ LET n == thread_counts[n_idx]
           last == n_idx = Len(thread_counts)
       IN  \E o \in run_command(name) :
             /\ invoked' = Append(invoked, Launch(name, n, o))
             /\ CASE o.status = "ok" ->
                       /\ results' = Append(results, Measurement(name, n, o))
                       /\ pc' = IF last THEN next ELSE name
                       /\ n_idx' = IF last THEN 1 ELSE n_idx + 1
                       /\ UNCHANGED <<exit_code, printed>>
                  [] o.status = "notfound" ->
                       /\ pc' = IF last THEN next ELSE name
                       /\ n_idx' = IF last THEN 1 ELSE n_idx + 1
                       /\ UNCHANGED <<results, exit_code, printed>>
                  [] o.status = "nonzero" -> Abort
    /\ UNCHANGED <<prog, data_tree, max_threads, total_files, total_bytes, t,
                   thread_counts, cvars, i, rvars>>

\* one iteration of `for n in thread_counts:` with its try/except/break
MtStage(name, next) ==
    /\ prog = "benchmark" /\ pc = name
    /\ LET n == thread_counts[n_idx]
           last == n_idx = Len(thread_counts)
       IN  \E o \in run_command(name) :
             /\ invoked' = Append(invoked, Launch(name, n, o))
             /\ CASE o.status = "ok" ->
                       /\ results' = Append(results, Measurement(name, n, o))
                       /\ pc' = IF last THEN next ELSE name
                       /\ n_idx' = IF last THEN 1 ELSE n_idx + 1
                       /\ UNCHANGED <<exit_code, printed>>
                  [] o.status = "notfound" ->
                       /\ pc' = next
                       /\ n_idx' = 1
                       /\ UNCHANGED <<results, exit_code, printed>>
                  [] o.status = "nonzero" -> Abort
    /\ UNCHANGED <<prog, data_tree, max_threads, total_files, total_bytes, t,
                   thread_counts, cvars, i, rvars>>

RunFauxgrep == SingleStage("fauxgrep", "fauxgrep-mt")
RunFauxgrepMt == MtStage("fauxgrep-mt", "fhistogram")
RunFhistogram == SingleStage("fhistogram", "fhistogram-mt")
RunFhistogramMt == MtStage("fhistogram-mt", "print")

\* lines 127-131, then main returns and the interpreter exits with status 0
PrintResults ==
    /\ prog = "benchmark" /\ pc = "print"
    /\ printed' = (results # <<>>)
    /\ pc' = "done"
    /\ exit_code' = 0
    /\ UNCHANGED <<prog, data_tree, max_threads, total_files, total_bytes, t,
                   thread_counts, n_idx, results, invoked, cvars, i, rvars>>

\* ======================= create_dataset.py ===============================

Names == {"a", "b"}     \* relative paths of files inside a directory tree

Contents == {"x", "y"}  \* what a file can hold

\* a directory tree: relative path -> content, as a set of pairs
Trees ==
    {tr \in SUBSET (Names \X Contents) :
        \A x \in tr, y \in tr : x[1] = y[1] => x = y}

Absent == [kind |-> "absent", files |-> {}]
RegularFile == [kind |-> "file", files |-> {}]
Dir(tr) == [kind |-> "dir", files |-> tr]

\* what a path can name: nothing, a regular file, or a directory tree
Entry == {Absent, RegularFile} \cup {Dir(tr) : tr \in Trees}

CopyIdx == 0..(MaxCopies - 1)
NoEntries == [k \in CopyIdx |-> Absent]

\* --dest: nothing, a regular file, or a directory with entries copy_k
Dests ==
    {[kind |-> "absent", entries |-> NoEntries],
     [kind |-> "file", entries |-> NoEntries]}
    \cup [kind : {"dir"}, entries : [CopyIdx -> Entry]]

isdir(e) == e.kind = "dir"
exists(e) == e.kind # "absent"

\* the entry --source names, given the current state of --dest
Source(d) ==
    IF source_at = 0 - 1 THEN source
    ELSE IF d.kind = "dir" THEN d.entries[source_at] ELSE Absent

\* os.makedirs(dest, exist_ok=True) on a path that is absent or a directory
makedirs(d) == IF d.kind = "dir" THEN d ELSE [kind |-> "dir", entries |-> NoEntries]

\* slip: the removal of a pre-existing copy_<i> left out
rmtree_skipped(d, k) == d

\* shutil.rmtree(copy_dest) on a directory
rmtree(d, k) == [d EXCEPT !.entries[k] = Absent]

\* shutil.copytree(source, copy_dest) with source a directory, copy_dest absent
copytree(src, d, k) == [d EXCEPT !.entries[k] = Dir(src.files)]

\* The body of `for i in range(copies)`, lines 37-41, on --dest d with i = k:
\* the --dest it leaves and whether an exception left it.
\*   rmtree of a regular file raises NotADirectoryError;
\*   copytree raises FileNotFoundError when the source is no directory (it
\*   lists the source first) and FileExistsError when copy_dest exists.
copy_body(d, k) ==
    LET copy_dest == d.entries[k]
    IN  IF exists(copy_dest) /\ ~isdir(copy_dest)
        THEN [raised |-> TRUE, dest |-> d]
        ELSE LET cleared == IF exists(copy_dest) THEN rmtree(d, k) ELSE d
             IN  IF ~isdir(Source(cleared)) \/ exists(cleared.entries[k])
                 THEN [raised |-> TRUE, dest |-> cleared]
                 ELSE [raised |-> FALSE,
                       dest |-> copytree(Source(cleared), cleared, k)]

\* the __main__ error boundary: print "Error: ...", sys.exit(1)
Fail ==
    /\ pc' = "failed"
    /\ exit_code' = 1

\* slip: os.makedirs moved in front of the isdir check
CopyStart_makedirs_first ==
    /\ prog = "copy" /\ pc = "start"
    /\ IF dest.kind = "file"
       THEN Fail /\ UNCHANGED <<dest, i>>
       ELSE IF ~isdir(Source(makedirs(dest)))
       THEN Fail /\ dest' = makedirs(dest) /\ UNCHANGED i
       ELSE /\ dest' = makedirs(dest)
            /\ i' = 0
            /\ pc' = "copy_loop"
            /\ UNCHANGED exit_code
    /\ UNCHANGED <<prog, bvars, source, source_at, copies, rvars>>

\* make_copy_dataset, lines 33-35
CopyStart ==
    /\ prog = "copy" /\ pc = "start"
    /\ IF ~isdir(Source(dest))
       THEN Fail /\ UNCHANGED <<dest, i>>                  \* ValueError
       ELSE IF dest.kind = "file"
       THEN Fail /\ UNCHANGED <<dest, i>>                  \* FileExistsError
       ELSE /\ dest' = makedirs(dest)
            /\ i' = 0
            /\ pc' = "copy_loop"
            /\ UNCHANGED exit_code
    /\ UNCHANGED <<prog, bvars, source, source_at, copies, rvars>>

\* one iteration of `for i in range(copies)`
CopyIter ==
    /\ prog = "copy" /\ pc = "copy_loop"
    /\ i < copies
    /\ LET r == copy_body(dest, i)
       IN  /\ dest' = r.dest
           /\ IF r.raised
              THEN Fail /\ UNCHANGED i
              ELSE i' = i + 1 /\ UNCHANGED <<pc, exit_code>>
    /\ UNCHANGED <<prog, bvars, source, source_at, copies, rvars>>

\* the loop is exhausted, line 42; main returns, exit status 0
CopyDone ==
    /\ prog = "copy" /\ pc = "copy_loop"
    /\ ~(i < copies)
    /\ pc' = "done"
    /\ exit_code' = 0
    /\ UNCHANGED <<prog, bvars, cvars, i, rvars>>

\* make_random_dataset, lines 47-48
RandomStart ==
    /\ prog = "random" /\ pc = "start"
    /\ IF dest.kind = "file"
       THEN Fail /\ UNCHANGED <<dest, i>>                  \* FileExistsError
       ELSE /\ dest' = makedirs(dest)
            /\ i' = 0
            /\ pc' = "file_loop"
            /\ UNCHANGED exit_code
    /\ UNCHANGED <<prog, bvars, source, source_at, copies, rvars>>

\* lines 50-53: open file_<i>.txt for writing, remaining = file_size
OpenFile ==
    /\ prog = "random" /\ pc = "file_loop"
    /\ i < num_files
    /\ written' = Append(written, 0)
    /\ remaining' = file_size
    /\ pc' = "line_loop"
    /\ UNCHANGED <<prog, exit_code, bvars, cvars, i, num_files, file_size>>

\* line 56
line_len(rem) == Min(LineWidth, rem)

\* bytes that f.write(line); f.write("\n") add to the file
line_bytes(rem) == line_len(rem) + NewlineLen

\* slip: the newline not accounted for
next_remaining_no_newline(rem) == rem - line_len(rem)

\* line 60
next_remaining(rem) == rem - (line_len(rem) + 1)

\* one iteration of `while remaining > 0`, lines 56-60
WriteLine ==
    /\ prog = "random" /\ pc = "line_loop"
    /\ remaining > 0
    /\ written' = [written EXCEPT ![i + 1] = @ + line_bytes(remaining)]
    /\ remaining' = next_remaining(remaining)
    /\ UNCHANGED <<prog, pc, exit_code, bvars, cvars, i, num_files, file_size>>

\* the while loop ends, the file is closed, next i
CloseFile ==
    /\ prog = "random" /\ pc = "line_loop"
    /\ ~(remaining > 0)
    /\ i' = i + 1
    /\ pc' = "file_loop"
    /\ UNCHANGED <<prog, exit_code, bvars, cvars, rvars>>

\* range(num_files) is exhausted, line 61; main returns, exit status 0
RandomDone ==
    /\ prog = "random" /\ pc = "file_loop"
    /\ ~(i < num_files)
    /\ pc' = "done"
    /\ exit_code' = 0
    /\ UNCHANGED <<prog, bvars, cvars, i, rvars>>

\* ======================= the runs ========================================

InitBench ==
    /\ prog = "benchmark"
    /\ data_tree \in DataTrees
    /\ max_threads \in MinIntArg..MaxThreadsArg
    /\ source = Absent /\ source_at = 0 - 1
    /\ dest = [kind |-> "absent", entries |-> NoEntries]
    /\ copies = 0 /\ num_files = 0 /\ file_size = 0

InitCopy ==
    /\ prog = "copy"
    /\ \/ source \in Entry /\ source_at = 0 - 1
       \/ source = Absent /\ source_at \in CopyIdx
    /\ dest \in Dests
    /\ copies \in MinIntArg..MaxCopies
    /\ data_tree = <<>> /\ max_threads = 0
    /\ num_files = 0 /\ file_size = 0

InitRandom ==
    /\ prog = "random"
    /\ dest \in {d \in Dests : \A k \in CopyIdx : d.entries[k] = Absent}
    /\ num_files \in MinIntArg..MaxNumFiles
    /\ file_size \in MinIntArg..MaxFileSize
    /\ source = Absent /\ source_at = 0 - 1
    /\ copies = 0
    /\ data_tree = <<>> /\ max_threads = 0

Init ==
    /\ pc = "start"
    /\ exit_code = 0 - 1
    /\ total_files = 0 /\ total_bytes = 0
    /\ t = 0 /\ thread_counts = <<>> /\ n_idx = 1
    /\ results = <<>> /\ invoked = <<>> /\ printed = FALSE
    /\ i = 0 /\ remaining = 0 /\ written = <<>>
    /\ (InitBench \/ InitCopy \/ InitRandom)

Next ==
    \/ BenchStart
    \/ BuildStep
    \/ BuildDone
    \/ RunFauxgrep
    \/ RunFauxgrepMt
    \/ RunFhistogram
    \/ RunFhistogramMt
    \/ PrintResults
    \/ CopyStart
    \/ CopyIter
    \/ CopyDone
    \/ RandomStart
    \/ OpenFile
    \/ WriteLine
    \/ CloseFile
    \/ RandomDone

Spec == Init /\ [][Next]_vars

\* every loop of the scripts runs on: a run that can take a step takes one
FairSpec == Spec /\ WF_vars(Next)

\* ======================= properties: benchmark.py ========================

Bench == prog = "benchmark"

\* positions of the launch log
Launches == DOMAIN invoked

Status(k) == invoked[k].status

\* the stage that follows a stage of the sweep
NextStage(st) ==
    CASE st = "fauxgrep" -> "fauxgrep-mt"
      [] st = "fauxgrep-mt" -> "fhistogram"
      [] st = "fhistogram" -> "fhistogram-mt"
      [] st = "fhistogram-mt" -> "print"

\* the step launches a program and the launch ends with status st
LaunchStep(st) ==
    /\ Len(invoked') = Len(invoked) + 1
    /\ invoked'[Len(invoked')].status = st

\* C1: for max_threads >= 1 every value of thread_counts is <= max_threads.
C1_ThreadCountsWithinMax ==
    (Bench /\ max_threads >= 1) =>
        \A k \in DOMAIN thread_counts : thread_counts[k] <= max_threads

RECURSIVE Pow2(_)
Pow2(k) == IF k <= 0 THEN 1 ELSE 2 * Pow2(k - 1)

\* the least k with 2^k >= max (0 when max <= 1)
FirstPow2Exp(max) == CHOOSE k \in 0..(MaxThreadsArg + 1) :
    /\ Pow2(k) >= max
    /\ \A j \in 0..(k - 1) : Pow2(j) < max

DoublingsUpTo(max) == [j \in 1..(FirstPow2Exp(max) + 1) |-> Pow2(j - 1)]

C2_MissingBinarySkips ==
    /\ [][LaunchStep("notfound") =>
            /\ pc' = NextStage(pc)
            /\ exit_code' = exit_code
            /\ results' = results]_vars
    /\ [](\A j \in Launches, k \in Launches :
            (j < k /\ Status(j) = "notfound") => invoked[k].prog # invoked[j].prog)
    /\ [](pc = "aborted" => \E k \in Launches : Status(k) = "nonzero")
    /\ [](Bench /\ pc = "done" =>
            /\ exit_code = 0
            /\ \A q \in DOMAIN Programs :
                  \E k \in Launches : invoked[k].prog = Programs[q])
    /\ (Bench ~> (\/ pc = "done" /\ exit_code = 0
                  \/ \E k \in Launches : Status(k) = "nonzero"))

C2_Witness ==
    /\ Bench /\ pc = "done" /\ exit_code = 0
    /\ Len(thread_counts) >= 3
    /\ \E j \in Launches, k \in Launches :
          /\ j < k
          /\ invoked[j] = [prog |-> "fauxgrep-mt", threads |-> 2, status |-> "notfound"]
          /\ invoked[k] = [prog |-> "fhistogram-mt", threads |-> 4, status |-> "ok"]
    /\ \E j \in Launches :
          invoked[j] = [prog |-> "fhistogram", threads |-> 1, status |-> "notfound"]

\* C3: once a launched program has exited non-zero, that launch is the last
\* one, the run is aborted with a failure status, the table is not printed,
\* and nothing happens afterwards.
C3_NonZeroExitAborts ==
    /\ [](\A k \in Launches : Status(k) = "nonzero" =>
            /\ k = Len(invoked)
            /\ pc = "aborted"
            /\ exit_code = 1
            /\ ~printed)
    /\ [][pc = "aborted" => FALSE]_vars

C3_Witness ==
    /\ Bench /\ pc = "aborted" /\ exit_code = 1
    /\ Len(results) >= 2
    /\ ~printed
    /\ invoked[Len(invoked)] = [prog |-> "fauxgrep-mt", threads |-> 2, status |-> "nonzero"]

\* the files under --data whose size was read
Readable(tree) == {k \in DOMAIN tree : tree[k].readable}

RECURSIVE SumSizes(_, _)
SumSizes(tree, ks) ==
    IF ks = {} THEN 0
    ELSE LET k == CHOOSE x \in ks : TRUE
         IN  tree[k].size + SumSizes(tree, ks \ {k})

\* C5: a file whose size lookup raises adds nothing to total_files nor to
\* total_bytes: the totals are the count and the byte sum of the files read.
C5_SkippedFilesCountNothing ==
    (Bench /\ pc # "start") =>
        /\ total_files = Cardinality(Readable(data_tree))
        /\ total_bytes = SumSizes(data_tree, Readable(data_tree))

Key(e) == <<e.prog, e.threads>>

IsOk(e) == e.status = "ok"

Rank(name) == CHOOSE q \in DOMAIN Programs : Programs[q] = name

\* C6: results holds one entry per launch that exited 0, in launch order:
\* fauxgrep, fauxgrep-mt by ascending thread count, fhistogram, fhistogram-mt
\* by ascending thread count; it only grows by appending.
C6_ResultsFollowInvocations ==
    /\ [](LET okl == SelectSeq(invoked, IsOk)
          IN  /\ Len(results) = Len(okl)
              /\ \A k \in DOMAIN results : Key(results[k]) = Key(okl[k]))
    /\ [](\A j \in DOMAIN results, k \in DOMAIN results :
            j < k =>
              \/ Rank(results[j].prog) < Rank(results[k].prog)
              \/ /\ results[j].prog = results[k].prog
                 /\ results[j].threads < results[k].threads)
    /\ [](\A k \in DOMAIN results :
            \/ results[k].prog \in {"fauxgrep", "fhistogram"} /\ results[k].threads = 1
            \/ /\ results[k].prog \in {"fauxgrep-mt", "fhistogram-mt"}
               /\ \E q \in DOMAIN thread_counts : results[k].threads = thread_counts[q])
    /\ [][\/ results' = results
          \/ /\ LaunchStep("ok")
             /\ Len(results') = Len(results) + 1
             /\ SubSeq(results', 1, Len(results)) = results]_vars

C6_Witness ==
    /\ Bench /\ pc = "done"
    /\ Len(results) = 5
    /\ Len(invoked) = 7
    /\ results[2].threads = 1 /\ results[3].threads = 2
    /\ results[5].prog = "fhistogram-mt"

\* ======================= properties: create_dataset.py ===================

CopyMode == prog = "copy"

RandomMode == prog = "random"

\* the files of random mode that have been written and closed
Closed == 1..Min(i, Len(written))

\* C4: for file_size >= 1 every file written has a byte size in (0, file_size].
C4_FileSizeWithinTarget ==
    (RandomMode /\ file_size >= 1) =>
        \A k \in Closed : 0 < written[k] /\ written[k] <= file_size

Mult81 == RandomMode /\ file_size >= 1 /\ file_size % 81 = 0

\* C9: when file_size >= 1 is a multiple of 81, every line written is 80
\* characters and a newline, remaining never passes below 0, so the line loop
\* ends with remaining = 0; it does end, and every file has exactly
\* file_size bytes.
C9_ExactWhenMultipleOf81 ==
    /\ [](Mult81 /\ pc = "line_loop" =>
            /\ remaining >= 0
            /\ written[i + 1] + remaining = file_size)
    /\ [](Mult81 => \A k \in Closed : written[k] = file_size)
    /\ [][Mult81 /\ pc = "line_loop" /\ pc' = "line_loop" =>
            written'[i + 1] = written[i + 1] + 81]_vars
    /\ [][Mult81 /\ pc = "line_loop" /\ pc' = "file_loop" => remaining = 0]_vars
    /\ ((RandomMode /\ pc = "line_loop") ~> (pc = "file_loop"))

C9_Witness ==
    /\ RandomMode /\ pc = "done"
    /\ file_size = 162
    /\ written = <<162, 162>>

\* the whole loop of make_copy_dataset run from i = k on --dest d
RECURSIVE run_copies(_, _)
run_copies(d, k) ==
    IF ~(k < copies) THEN [raised |-> FALSE, dest |-> d]
    ELSE LET r == copy_body(d, k)
         IN  IF r.raised THEN r ELSE run_copies(r.dest, k + 1)

\* C7: when make_copy_dataset completes, --source is still a directory and
\* every copy_k with k < copies is a directory holding exactly the files of
\* --source with the same contents, whatever copy_k held before; a second
\* run leaves --dest as it is; no entry other than copy_0 .. copy_(N-1) is
\* ever touched; the run ends, and it ends in failure only when --source is
\* no directory outside --dest, or --dest or a copy_k to replace is a
\* regular file.
C7_CopiesMatchSource ==
    /\ [](CopyMode /\ pc = "done" =>
            /\ exit_code = 0
            /\ isdir(Source(dest))
            /\ dest.kind = "dir"
            /\ \A k \in CopyIdx :
                  k < copies => dest.entries[k] = Dir(Source(dest).files)
            /\ run_copies(dest, 0) = [raised |-> FALSE, dest |-> dest])
    /\ [][CopyMode =>
            \A k \in CopyIdx : ~(k < copies) => dest'.entries[k] = dest.entries[k]]_vars
    /\ [](CopyMode /\ pc = "failed" =>
            \/ source_at # 0 - 1
            \/ ~isdir(source)
            \/ dest.kind = "file"
            \/ \E k \in CopyIdx : k < copies /\ dest.entries[k] = RegularFile)
    /\ (CopyMode ~> pc \in {"done", "failed"})

C7_Witness ==
    /\ CopyMode /\ pc = "done" /\ exit_code = 0
    /\ copies = 2
    /\ source = Dir({<<"a", "x">>, <<"b", "y">>})
    /\ dest.entries[0] = source /\ dest.entries[1] = source

\* C10: when --source is not an existing directory, the first step of
\* make_copy_dataset ends the run with exit status 1 and leaves --dest and
\* --source as they were; nothing happens after a failure.
C10_BadSourceFailsFirst ==
    /\ [][CopyMode /\ pc = "start" /\ ~isdir(Source(dest)) =>
            /\ pc' = "failed"
            /\ exit_code' = 1
            /\ dest' = dest
            /\ source' = source]_vars
    /\ [][pc = "failed" => FALSE]_vars

C10_Witness ==
    /\ CopyMode /\ pc = "failed" /\ exit_code = 1
    /\ source = RegularFile /\ source_at = 0 - 1
    /\ dest.kind = "absent"
    /\ copies = 2
====
